---------------------------- MODULE Spec2Model ----------------------------
(***************************************************************************)
(* pq-async-rs: the fair priority queue (crates/pq-fair), the synchronized *)
(* wrapper around it (crates/pq-sync) and the benchmark's producer /       *)
(* consumer harness (crates/pq-bench-sync).                                *)
(*                                                                         *)
(* Rust indexes levels from 0; a level of priority p is queues[p + 1].     *)
(* An item is an opaque payload for the queue.  The callers of the model   *)
(* pass payloads <<prio, entity, k>>: the k-th item accepted at            *)
(* (prio, entity), so that an item names its own place in the enqueue      *)
(* order.  The queue code never looks inside a payload.                    *)
(***************************************************************************)
EXTENDS Integers, Sequences, FiniteSets, TLC

\* ------------------------------------------------------------------ bounds
NPrio == 2
NEntities == 3
MaxItems == 4
NThreads == 3
MaxCalls == 4

Entities == 1..NEntities
Threads == 1..NThreads
Prios == 0..(NPrio - 1)
\* priorities a caller may pass: the valid ones and the first invalid one
PrioArgs == 0..NPrio

NoItem == <<>>

\* ------------------------------------------------- pq-fair: PriorityLevel
\* HashMap helpers: a map is a function whose DOMAIN is its key set
MapPut(m, k, v) == [x \in (DOMAIN m) \cup {k} |-> IF x = k THEN v ELSE m[x]]
MapRemove(m, k) == [x \in (DOMAIN m) \ {k} |-> m[x]]
EmptyMap == [x \in {} |-> <<>>]

LevelNew == [by_entities |-> EmptyMap, rr |-> <<>>, actives |-> {}]

FairNew(n_prio) == [i \in 1..n_prio |-> LevelNew]

\* mutant: the roster is pushed on every enqueue, active or not
LevelEnqueue_AlwaysPush(level, entity_id, item) ==
    LET items == IF entity_id \in DOMAIN level.by_entities
                 THEN level.by_entities[entity_id] ELSE <<>>
    IN  [by_entities |-> MapPut(level.by_entities, entity_id, Append(items, item)),
         rr |-> Append(level.rr, entity_id),
         actives |-> level.actives \cup {entity_id}]

\* mutant: the item is pushed at the front of the entity's sequence
LevelEnqueue_PushFront(level, entity_id, item) ==
    LET inserted == entity_id \notin level.actives
        items == IF entity_id \in DOMAIN level.by_entities
                 THEN level.by_entities[entity_id] ELSE <<>>
    IN  [by_entities |-> MapPut(level.by_entities, entity_id, <<item>> \o items),
         rr |-> IF inserted THEN Append(level.rr, entity_id) ELSE level.rr,
         actives |-> level.actives \cup {entity_id}]

\* level.actives.insert(e) is true iff e was absent; entry(e).or_default().push_back
LevelEnqueue(level, entity_id, item) ==
    LET inserted == entity_id \notin level.actives
        items == IF entity_id \in DOMAIN level.by_entities
                 THEN level.by_entities[entity_id] ELSE <<>>
    IN  [by_entities |-> MapPut(level.by_entities, entity_id, Append(items, item)),
         rr |-> IF inserted THEN Append(level.rr, entity_id) ELSE level.rr,
         actives |-> level.actives \cup {entity_id}]

\* mutant: the range test is off by one, prio = len lands in the last level
FairEnqueue_OffByOne(q, prio, entity_id, item) ==
    IF prio > Len(q) \/ Len(q) = 0
    THEN [ok |-> FALSE, err |-> <<"BadPriority", prio>>, q |-> q]
    ELSE LET i == IF prio + 1 > Len(q) THEN Len(q) ELSE prio + 1
         IN [ok |-> TRUE, err |-> <<>>,
             q |-> [q EXCEPT ![i] = LevelEnqueue(q[i], entity_id, item)]]

\* PriorityQueue::enqueue: [ok, err, q]
FairEnqueue(q, prio, entity_id, item) ==
    IF prio >= Len(q)
    THEN [ok |-> FALSE, err |-> <<"BadPriority", prio>>, q |-> q]
    ELSE [ok |-> TRUE, err |-> <<>>,
          q |-> [q EXCEPT ![prio + 1] = LevelEnqueue(q[prio + 1], entity_id, item)]]

\* mutant: a served entity that still has items keeps the head of the roster
LevelServe_NoRotation(level, entity_id) ==
    LET items == level.by_entities[entity_id]
        rest == Tail(items)
        rr1 == Tail(level.rr)
    IN  IF rest # <<>>
        THEN [by_entities |-> MapPut(level.by_entities, entity_id, rest),
              rr |-> <<entity_id>> \o rr1,
              actives |-> level.actives]
        ELSE [by_entities |-> MapRemove(level.by_entities, entity_id),
              rr |-> rr1,
              actives |-> level.actives \ {entity_id}]

\* mutant: an entity whose last item was served stays in actives
LevelServe_KeepActive(level, entity_id) ==
    LET items == level.by_entities[entity_id]
        rest == Tail(items)
        rr1 == Tail(level.rr)
    IN  IF rest # <<>>
        THEN [by_entities |-> MapPut(level.by_entities, entity_id, rest),
              rr |-> Append(rr1, entity_id),
              actives |-> level.actives]
        ELSE [by_entities |-> MapRemove(level.by_entities, entity_id),
              rr |-> rr1,
              actives |-> level.actives]

\* what one level does when its roster head was popped and an item was found
LevelServe(level, entity_id) ==
    LET items == level.by_entities[entity_id]
        rest == Tail(items)
        rr1 == Tail(level.rr)
    IN  IF rest # <<>>
        THEN [by_entities |-> MapPut(level.by_entities, entity_id, rest),
              rr |-> Append(rr1, entity_id),
              actives |-> level.actives]
        ELSE [by_entities |-> MapRemove(level.by_entities, entity_id),
              rr |-> rr1,
              actives |-> level.actives \ {entity_id}]

\* the for loop of PriorityQueue::try_dequeue from level index i on: [q, item, prio]
\* (prio is the 0-based level the item came from, -1 when none)
RECURSIVE TryDequeueFrom(_, _)
TryDequeueFrom(q, i) ==
    IF i > Len(q)
    THEN [q |-> q, item |-> NoItem, prio |-> -1]
    ELSE LET level == q[i] IN
         IF level.rr = <<>>
         THEN TryDequeueFrom(q, i + 1)
         ELSE LET entity_id == Head(level.rr) IN
              IF /\ entity_id \in DOMAIN level.by_entities
                 /\ level.by_entities[entity_id] # <<>>
              THEN [q |-> [q EXCEPT ![i] = LevelServe(level, entity_id)],
                    item |-> Head(level.by_entities[entity_id]),
                    prio |-> i - 1]
              ELSE \* rr.pop_front() happened, nothing to return: next level
                   TryDequeueFrom([q EXCEPT ![i].rr = Tail(level.rr)], i + 1)

\* mutant: the levels are scanned from the last one down
RECURSIVE TryDequeueDown(_, _)
TryDequeueDown(q, i) ==
    IF i < 1
    THEN [q |-> q, item |-> NoItem, prio |-> -1]
    ELSE LET level == q[i] IN
         IF level.rr = <<>>
         THEN TryDequeueDown(q, i - 1)
         ELSE LET entity_id == Head(level.rr) IN
              IF /\ entity_id \in DOMAIN level.by_entities
                 /\ level.by_entities[entity_id] # <<>>
              THEN [q |-> [q EXCEPT ![i] = LevelServe(level, entity_id)],
                    item |-> Head(level.by_entities[entity_id]),
                    prio |-> i - 1]
              ELSE TryDequeueDown([q EXCEPT ![i].rr = Tail(level.rr)], i - 1)

FairTryDequeue_LastLevelFirst(q) == TryDequeueDown(q, Len(q))

\* mutant: only the first level is looked at
FairTryDequeue_FirstLevelOnly(q) ==
    IF q = <<>> \/ q[1].rr = <<>>
    THEN [q |-> q, item |-> NoItem, prio |-> -1]
    ELSE TryDequeueFrom(q, 1)

FairTryDequeue(q) == TryDequeueFrom(q, 1)

\* PriorityQueue::is_empty (called by pq-sync): true iff every roster is empty
FairIsEmpty(q) == \A i \in 1..Len(q) : q[i].rr = <<>>


\* ------------------------------------------------------------------- state
VARIABLES
    pq,        \* State.pq: the fair queue, a sequence of levels
    closed,    \* State.closed
    pc,        \* pc[t]: where thread t stands in its current call ("idle": in none)
    waiters,   \* threads asleep on Inner.cv (a woken thread has left the set)
    elapsed,   \* elapsed[t]: the deadline of t's shutdown_timeout has passed
    ev,        \* the step just taken: <<operation, outcome>> (<<.., "Some", item>>)
    ncalls,    \* Spec: calls started so far
    enqCount,  \* history: enqCount[p][e] = items accepted so far at (p, e)
    out,       \* history: items handed to a caller of try_dequeue / dequeue
    entry,     \* history: entry[t] = what a shutdown call of t found on entry
    immDone,   \* history: a shutdown_immediate call has returned
    fres,      \* SpecFair: result of the last call on the bare fair queue
    ref,       \* SpecFair: state of the reference round-robin scheduler
               \* (SpecPlain: of the plain queue)
    refRes,    \* SpecFair: what the reference scheduler answered to the last call
               \* (SpecPlain: the plain queue)
    win,       \* SpecFair: per level, the last serves: who was served, who was
               \* active just before, who has stayed active since
    app        \* SpecBench, SpecGraceful: the program around the queue (where
               \* each thread stands in it, the capacity gate, the counters);
               \* SpecPlain: the entity the caller uses with each priority

fairVars == <<fres, ref, refRes, win>>
syncVars == <<pc, waiters, elapsed, ev, ncalls, out, entry, immDone, app>>
vars == <<pq, closed, pc, waiters, elapsed, ev, ncalls, enqCount, out, entry,
          immDone, fres, ref, refRes, win, app>>

TotalEnqueued == LET RECURSIVE Sum(_)
                     Sum(S) == IF S = {} THEN 0
                               ELSE LET x == CHOOSE y \in S : TRUE
                                    IN enqCount[x[1]][x[2]] + Sum(S \ {x})
                 IN Sum(Prios \X Entities)

\* Entity ids are compared for equality only, so entities are interchangeable:
\* callers take them into use in the order 1, 2, ... (e may be passed once
\* e - 1 has had an item accepted).
EntityArgs == {e \in Entities : e = 1 \/ \E p \in Prios : enqCount[p][e - 1] > 0}

\* the payload the model's callers pass for the next item at (prio, e)
NextItem(prio, e) == <<prio, e, IF prio \in Prios THEN enqCount[prio][e] + 1 ELSE 0>>

\* ------------------------------------- reference round-robin scheduler
\* Per level: roster, the entities in service order, and pend, the level's
\* queued <<entity, item>> pairs in arrival order.
RefNew == [p \in Prios |-> [roster |-> <<>>, pend |-> <<>>]]

RefHas(lv, e) == \E i \in 1..Len(lv.pend) : lv.pend[i][1] = e

RefFirst(lv, e) == CHOOSE i \in 1..Len(lv.pend) :
                       /\ lv.pend[i][1] = e
                       /\ \A j \in 1..(i - 1) : lv.pend[j][1] # e

SeqRemove(s, i) == SubSeq(s, 1, i - 1) \o SubSeq(s, i + 1, Len(s))

RefEnqueue(r, prio, e, item) ==
    IF prio \notin Prios THEN r
    ELSE [r EXCEPT ![prio] =
            [roster |-> IF RefHas(@, e) THEN @.roster ELSE Append(@.roster, e),
             pend |-> Append(@.pend, <<e, item>>)]]

RefNonEmpty(r) == {p \in Prios : r[p].pend # <<>>}

RefLowest(r) == CHOOSE p \in RefNonEmpty(r) : \A q \in RefNonEmpty(r) : p <= q

RefItem(r) ==
    IF RefNonEmpty(r) = {} THEN NoItem
    ELSE LET lv == r[RefLowest(r)] IN lv.pend[RefFirst(lv, Head(lv.roster))][2]

RefDequeue(r) ==
    IF RefNonEmpty(r) = {} THEN r
    ELSE LET p == RefLowest(r)
             lv == r[p]
             e == Head(lv.roster)
             left == SeqRemove(lv.pend, RefFirst(lv, e))
             after == [roster |-> lv.roster, pend |-> left]
         IN [r EXCEPT ![p] =
               [roster |-> IF RefHas(after, e) THEN Append(Tail(lv.roster), e)
                           ELSE Tail(lv.roster),
                pend |-> left]]

\* ---------------------------------------- SpecFair: the bare fair queue
\* win[p] keeps the latest serves of level p, oldest first.  A serve whose
\* window (as many dequeues as entities were active before it) is over is
\* dropped from the front.
WinPush(w, serve) ==
    LET all == Append(w, serve)
        n == Len(all)
        k == CHOOSE j \in 1..n :
                 /\ n - j + 1 <= Cardinality(all[j].before)
                 /\ \A i \in 1..(j - 1) : n - i + 1 > Cardinality(all[i].before)
    IN SubSeq(all, k, n)

WinServe(w, e, before, after) ==
    WinPush([i \in 1..Len(w) |-> [w[i] EXCEPT !.stay = @ \cap after]],
            [ent |-> e, before |-> before, stay |-> before \cap after])

\* no program around the queue
NoApp == [bpc |-> <<>>]

InitFair ==
    /\ pq = FairNew(NPrio)
    /\ closed = FALSE
    /\ enqCount = [p \in Prios |-> [e \in Entities |-> 0]]
    /\ fres = <<"new">>
    /\ ref = RefNew
    /\ refRes = <<"new">>
    /\ win = [p \in Prios |-> <<>>]
    /\ pc = [t \in Threads |-> "idle"]
    /\ waiters = {}
    /\ elapsed = [t \in Threads |-> FALSE]
    /\ ev = <<"new">>
    /\ ncalls = 0
    /\ out = {}
    /\ entry = [t \in Threads |-> "-"]
    /\ immDone = FALSE
    /\ app = NoApp

FEnqueue(prio, e) ==
    LET item == NextItem(prio, e)
        r == FairEnqueue(pq, prio, e, item)
    IN /\ TotalEnqueued < MaxItems
       /\ pq' = r.q
       /\ fres' = IF r.ok THEN <<"enqueue", "Ok">> ELSE <<"enqueue">> \o r.err
       /\ enqCount' = IF r.ok THEN [enqCount EXCEPT ![prio][e] = @ + 1] ELSE enqCount
       /\ ref' = RefEnqueue(ref, prio, e, item)
       /\ refRes' = IF prio \in Prios THEN <<"enqueue", "Ok">>
                    ELSE <<"enqueue", "BadPriority", prio>>
       /\ UNCHANGED <<closed, win, syncVars>>

FTryDequeue ==
    LET r == FairTryDequeue(pq)
        p == r.prio
    IN /\ pq' = r.q
       /\ fres' = <<"try_dequeue", r.item>>
       /\ ref' = RefDequeue(ref)
       /\ refRes' = <<"try_dequeue", RefItem(ref)>>
       /\ win' = IF r.item = NoItem THEN win
                 ELSE [win EXCEPT ![p] = WinServe(@, r.item[2], pq[p + 1].actives,
                                                  r.q[p + 1].actives)]
       /\ UNCHANGED <<closed, enqCount, syncVars>>

NextFair ==
    \/ \E prio \in PrioArgs, e \in EntityArgs : FEnqueue(prio, e)
    \/ FTryDequeue

SpecFair == InitFair /\ [][NextFair]_vars

\* --------------------- the plain priority queue of src/lib.rs: one FIFO
\* per priority, no entities
PlainNew(n_prio) == [i \in 1..n_prio |-> <<>>]

\* mutant: the item goes to the front of its priority's queue
PlainEnqueue_PushFront(q, prio, item) ==
    IF prio >= Len(q)
    THEN [ok |-> FALSE, err |-> <<"BadPriority", prio>>, q |-> q]
    ELSE [ok |-> TRUE, err |-> <<>>, q |-> [q EXCEPT ![prio + 1] = <<item>> \o @]]

\* PriorityQueue::enqueue: [ok, err, q]
PlainEnqueue(q, prio, item) ==
    IF prio >= Len(q)
    THEN [ok |-> FALSE, err |-> <<"BadPriority", prio>>, q |-> q]
    ELSE [ok |-> TRUE, err |-> <<>>, q |-> [q EXCEPT ![prio + 1] = Append(@, item)]]

\* the for loop of PriorityQueue::try_dequeue from index p on: [q, item]
RECURSIVE PlainTryDequeueFrom(_, _)
PlainTryDequeueFrom(q, p) ==
    IF p > Len(q) THEN [q |-> q, item |-> NoItem]
    ELSE IF q[p] # <<>> THEN [q |-> [q EXCEPT ![p] = Tail(@)], item |-> Head(q[p])]
    ELSE PlainTryDequeueFrom(q, p + 1)

PlainTryDequeue(q) == PlainTryDequeueFrom(q, 1)

\* ----------- SpecPlain: the fair queue and the plain queue side by side
\* Both are given the same calls.  app.owner[prio] is the one entity that the
\* caller passes to the fair queue with priority prio; ref is here the plain
\* queue and refRes what it answered to the last call.
InitPlain ==
    /\ pq = FairNew(NPrio)
    /\ closed = FALSE
    /\ enqCount = [p \in Prios |-> [e \in Entities |-> 0]]
    /\ fres = <<"new">>
    /\ ref = PlainNew(NPrio)
    /\ refRes = <<"new">>
    /\ win = [p \in Prios |-> <<>>]
    /\ pc = [t \in Threads |-> "idle"]
    /\ waiters = {}
    /\ elapsed = [t \in Threads |-> FALSE]
    /\ ev = <<"new">>
    /\ ncalls = 0
    /\ out = {}
    /\ entry = [t \in Threads |-> "-"]
    /\ immDone = FALSE
    /\ app \in {[owner |-> f] : f \in [PrioArgs -> Entities]}

PEnqueue(prio) ==
    LET e == app.owner[prio]
        item == NextItem(prio, e)
        r == FairEnqueue(pq, prio, e, item)
        s == PlainEnqueue(ref, prio, item)
    IN /\ TotalEnqueued < MaxItems
       /\ pq' = r.q
       /\ fres' = IF r.ok THEN <<"enqueue", "Ok">> ELSE <<"enqueue">> \o r.err
       /\ enqCount' = IF r.ok THEN [enqCount EXCEPT ![prio][e] = @ + 1] ELSE enqCount
       /\ ref' = s.q
       /\ refRes' = IF s.ok THEN <<"enqueue", "Ok">> ELSE <<"enqueue">> \o s.err
       /\ UNCHANGED <<closed, win, syncVars>>

PTryDequeue ==
    LET r == FairTryDequeue(pq)
        s == PlainTryDequeue(ref)
    IN /\ pq' = r.q
       /\ fres' = <<"try_dequeue", r.item>>
       /\ ref' = s.q
       /\ refRes' = <<"try_dequeue", s.item>>
       /\ UNCHANGED <<closed, enqCount, win, syncVars>>

NextPlain ==
    \/ \E prio \in PrioArgs : PEnqueue(prio)
    \/ PTryDequeue

SpecPlain == InitPlain /\ [][NextPlain]_vars

\* ------------------------------------------- pq-sync: SyncPriorityQueue
\* The mutex makes each locked section one step; a call is cut where it
\* releases the lock: before a notify, and in a condition-variable wait.

\* Condvar::notify_one wakes one sleeping thread, whichever; none if none sleeps
NotifyOne == IF waiters = {} THEN waiters' = waiters
             ELSE \E w \in waiters : waiters' = waiters \ {w}

\* Condvar::notify_all
NotifyAll == waiters' = {}

SetPc(t, where) == pc' = [pc EXCEPT ![t] = where]

\* mutant: enqueue does not look at closed
EnqueueLocked_NoClosedCheck(q, cl, prio, entity_id, item) ==
    LET r == FairEnqueue(q, prio, entity_id, item)
    IN IF r.ok THEN [q |-> r.q, res |-> <<"queued">>] ELSE [q |-> q, res |-> r.err]

\* mutant: the priority is tested before closed
EnqueueLocked_PrioFirst(q, cl, prio, entity_id, item) ==
    IF prio >= Len(q) THEN [q |-> q, res |-> <<"BadPriority", prio>>]
    ELSE IF cl THEN [q |-> q, res |-> <<"Closed">>]
    ELSE [q |-> FairEnqueue(q, prio, entity_id, item).q, res |-> <<"queued">>]

\* enqueue while it holds the lock: [q, res]
EnqueueLocked(q, cl, prio, entity_id, item) ==
    IF cl THEN [q |-> q, res |-> <<"Closed">>]
    ELSE LET r == FairEnqueue(q, prio, entity_id, item)
         IN IF r.ok THEN [q |-> r.q, res |-> <<"queued">>] ELSE [q |-> q, res |-> r.err]

SyncEnqueueItem(t, prio, e, item) ==
    LET r == EnqueueLocked(pq, closed, prio, e, item)
    IN /\ pc[t] = "idle"
       /\ pq' = r.q
       /\ ev' = <<"enqueue">> \o r.res
       /\ pc' = IF r.res = <<"queued">> THEN [pc EXCEPT ![t] = "enq_notify"] ELSE pc
       /\ UNCHANGED <<closed, waiters, elapsed, out, entry, immDone, fairVars>>

\* enqueue of the next numbered item of (prio, e)
SyncEnqueue(t, prio, e) ==
    /\ SyncEnqueueItem(t, prio, e, NextItem(prio, e))
    /\ enqCount' = IF ev' = <<"enqueue", "queued">>
                   THEN [enqCount EXCEPT ![prio][e] = @ + 1] ELSE enqCount

\* mutant: enqueue wakes nobody
SyncEnqueueNotify_NoNotify(t) ==
    /\ pc[t] = "enq_notify"
    /\ UNCHANGED waiters
    /\ SetPc(t, "idle")
    /\ ev' = <<"enqueue", "Ok">>
    /\ UNCHANGED <<pq, closed, elapsed, enqCount, out, entry, immDone, fairVars>>

\* drop(st); cv.notify_one(); Ok(())
SyncEnqueueNotify(t) ==
    /\ pc[t] = "enq_notify"
    /\ NotifyOne
    /\ SetPc(t, "idle")
    /\ ev' = <<"enqueue", "Ok">>
    /\ UNCHANGED <<pq, closed, elapsed, enqCount, out, entry, immDone, fairVars>>

\* mutant: try_dequeue refuses a closed queue
SyncTryDequeue_ClosedCheck(t) ==
    LET r == FairTryDequeue(pq)
    IN /\ pc[t] = "idle"
       /\ pq' = IF closed THEN pq ELSE r.q
       /\ ev' = IF closed THEN <<"try_dequeue", "Closed">>
                ELSE IF r.item = NoItem THEN <<"try_dequeue", "None">>
                ELSE <<"try_dequeue", "Some", r.item>>
       /\ out' = IF closed \/ r.item = NoItem THEN out ELSE out \cup {r.item}
       /\ UNCHANGED <<closed, pc, waiters, elapsed, enqCount, entry, immDone, fairVars>>

\* mutant: try_dequeue sleeps on an empty open queue, as dequeue does
SyncTryDequeue_Blocking(t) ==
    LET r == FairTryDequeue(pq)
    IN /\ pc[t] = "idle"
       /\ pq' = r.q
       /\ ev' = IF r.item # NoItem THEN <<"try_dequeue", "Some", r.item>>
                ELSE IF closed THEN <<"try_dequeue", "None">>
                ELSE <<"try_dequeue", "wait">>
       /\ out' = IF r.item = NoItem THEN out ELSE out \cup {r.item}
       /\ waiters' = IF r.item = NoItem /\ ~closed THEN waiters \cup {t} ELSE waiters
       /\ pc' = IF r.item = NoItem /\ ~closed THEN [pc EXCEPT ![t] = "deq_wait"] ELSE pc
       /\ UNCHANGED <<closed, elapsed, enqCount, entry, immDone, fairVars>>

SyncTryDequeue(t) ==
    LET r == FairTryDequeue(pq)
    IN /\ pc[t] = "idle"
       /\ pq' = r.q
       /\ ev' = IF r.item = NoItem THEN <<"try_dequeue", "None">>
                ELSE <<"try_dequeue", "Some", r.item>>
       /\ out' = IF r.item = NoItem THEN out ELSE out \cup {r.item}
       /\ UNCHANGED <<closed, pc, waiters, elapsed, enqCount, entry, immDone, fairVars>>

\* mutant: dequeue sleeps on an empty queue, closed or not
DequeueWaits_IgnoreClosed(q, cl) == FairIsEmpty(q)

\* the predicate of dequeue's wait_while
DequeueWaits(q, cl) == FairIsEmpty(q) /\ ~cl

\* dequeue holding the lock: one evaluation of wait_while and, when it does
\* not sleep, lines 288-292
DequeueLocked(t) ==
    IF DequeueWaits(pq, closed)
    THEN /\ waiters' = waiters \cup {t}
         /\ SetPc(t, "deq_wait")
         /\ ev' = <<"dequeue", "wait">>
         /\ UNCHANGED <<pq, out>>
    ELSE LET r == FairTryDequeue(pq)
         IN /\ pq' = r.q
            /\ UNCHANGED waiters
            /\ IF r.item = NoItem
               THEN /\ SetPc(t, "idle")
                    /\ ev' = <<"dequeue", "Closed">>
                    /\ UNCHANGED out
               ELSE /\ SetPc(t, IF FairIsEmpty(r.q) THEN "deq_notify" ELSE "idle")
                    /\ ev' = <<"dequeue", "Some", r.item>>
                    /\ out' = out \cup {r.item}

SyncDequeue(t) ==
    /\ pc[t] = "idle"
    /\ DequeueLocked(t)
    /\ UNCHANGED <<closed, elapsed, enqCount, entry, immDone, fairVars>>

\* mutant: a woken dequeue does not evaluate the predicate again (an if in
\* the place of the wait_while loop)
SyncDequeueWake_NoRecheck(t) ==
    LET r == FairTryDequeue(pq)
    IN /\ pc[t] = "deq_wait"
       /\ t \notin waiters
       /\ pq' = r.q
       /\ UNCHANGED waiters
       /\ IF r.item = NoItem
          THEN /\ SetPc(t, "idle")
               /\ ev' = <<"dequeue", "Closed">>
               /\ UNCHANGED out
          ELSE /\ SetPc(t, IF FairIsEmpty(r.q) THEN "deq_notify" ELSE "idle")
               /\ ev' = <<"dequeue", "Some", r.item>>
               /\ out' = out \cup {r.item}
       /\ UNCHANGED <<closed, elapsed, enqCount, entry, immDone, fairVars>>

\* a woken dequeue has the lock again and re-evaluates the predicate
SyncDequeueWake(t) ==
    /\ pc[t] = "deq_wait"
    /\ t \notin waiters
    /\ DequeueLocked(t)
    /\ UNCHANGED <<closed, elapsed, enqCount, entry, immDone, fairVars>>

\* if became_empty { cv.notify_all() }; Ok(v)
SyncDequeueNotify(t) ==
    /\ pc[t] = "deq_notify"
    /\ NotifyAll
    /\ SetPc(t, "idle")
    /\ ev' = <<"dequeue", "Ok">>
    /\ UNCHANGED <<pq, closed, elapsed, enqCount, out, entry, immDone, fairVars>>

\* what a shutdown call finds when it takes the lock
EntryOf == IF ~closed THEN "open"
           ELSE IF FairIsEmpty(pq) THEN "closed-empty" ELSE "closed-nonempty"

\* mutant: shutdown_immediate closes and discards nothing
Drain_Nothing(q) == q

\* while st.pq.try_dequeue().is_some() {}
RECURSIVE Drain(_)
Drain(q) == LET r == FairTryDequeue(q)
            IN IF r.item = NoItem THEN r.q ELSE Drain(r.q)

\* how many times the loop of shutdown_immediate calls try_dequeue on q: once
\* per item it discards and once more for the None that ends it
RECURSIVE DrainCalls(_)
DrainCalls(q) == LET r == FairTryDequeue(q)
                 IN IF r.item = NoItem THEN 1 ELSE 1 + DrainCalls(r.q)

SyncShutdownImmediate(t) ==
    /\ pc[t] = "idle"
    /\ closed' = TRUE
    /\ pq' = Drain(pq)
    /\ SetPc(t, "si_notify")
    /\ entry' = [entry EXCEPT ![t] = EntryOf]
    /\ ev' = <<"shutdown_immediate", "drained">>
    /\ UNCHANGED <<waiters, elapsed, enqCount, out, immDone, fairVars>>

\* mutant: shutdown_immediate wakes one sleeper only
SyncShutdownImmediateNotify_NotifyOne(t) ==
    /\ pc[t] = "si_notify"
    /\ NotifyOne
    /\ SetPc(t, "idle")
    /\ entry' = [entry EXCEPT ![t] = "-"]
    /\ ev' = <<"shutdown_immediate", "Ok">>
    /\ immDone' = TRUE
    /\ UNCHANGED <<pq, closed, elapsed, enqCount, out, fairVars>>

SyncShutdownImmediateNotify(t) ==
    /\ pc[t] = "si_notify"
    /\ NotifyAll
    /\ SetPc(t, "idle")
    /\ entry' = [entry EXCEPT ![t] = "-"]
    /\ ev' = <<"shutdown_immediate", "Ok">>
    /\ immDone' = TRUE
    /\ UNCHANGED <<pq, closed, elapsed, enqCount, out, fairVars>>

\* shutdown_graceful holding the lock after closed is set: the is_empty test
\* of line 420, or one evaluation of wait_while(|s| !s.pq.is_empty())
GracefulLocked(t) ==
    IF FairIsEmpty(pq)
    THEN /\ SetPc(t, "sg_notify")
         /\ ev' = <<"shutdown_graceful", "empty">>
         /\ UNCHANGED waiters
    ELSE /\ SetPc(t, "sg_wait")
         /\ ev' = <<"shutdown_graceful", "wait">>
         /\ waiters' = waiters \cup {t}

\* mutant: a second shutdown is refused with Closed
SyncShutdownGraceful_ErrIfClosed(t) ==
    /\ pc[t] = "idle"
    /\ IF closed
       THEN /\ ev' = <<"shutdown_graceful", "Closed">>
            /\ UNCHANGED <<closed, pc, waiters, entry>>
       ELSE /\ closed' = TRUE
            /\ entry' = [entry EXCEPT ![t] = EntryOf]
            /\ GracefulLocked(t)
    /\ UNCHANGED <<pq, elapsed, enqCount, out, immDone, fairVars>>

\* mutant: shutdown_graceful does not set closed
SyncShutdownGraceful_NoClose(t) ==
    /\ pc[t] = "idle"
    /\ UNCHANGED closed
    /\ entry' = [entry EXCEPT ![t] = EntryOf]
    /\ GracefulLocked(t)
    /\ UNCHANGED <<pq, elapsed, enqCount, out, immDone, fairVars>>

\* mutant: shutdown_graceful discards what is queued, as shutdown_immediate does
SyncShutdownGraceful_Discard(t) ==
    /\ pc[t] = "idle"
    /\ closed' = TRUE
    /\ pq' = Drain(pq)
    /\ entry' = [entry EXCEPT ![t] = EntryOf]
    /\ SetPc(t, "sg_notify")
    /\ ev' = <<"shutdown_graceful", "empty">>
    /\ UNCHANGED <<waiters, elapsed, enqCount, out, immDone, fairVars>>

SyncShutdownGraceful(t) ==
    /\ pc[t] = "idle"
    /\ closed' = TRUE
    /\ entry' = [entry EXCEPT ![t] = EntryOf]
    /\ GracefulLocked(t)
    /\ UNCHANGED <<pq, elapsed, enqCount, out, immDone, fairVars>>

\* mutant: a woken shutdown_graceful does not look at the queue again
SyncShutdownGracefulWake_NoRecheck(t) ==
    /\ pc[t] = "sg_wait"
    /\ t \notin waiters
    /\ SetPc(t, "sg_notify")
    /\ ev' = <<"shutdown_graceful", "empty">>
    /\ UNCHANGED <<pq, closed, waiters, elapsed, enqCount, out, entry, immDone, fairVars>>

SyncShutdownGracefulWake(t) ==
    /\ pc[t] = "sg_wait"
    /\ t \notin waiters
    /\ GracefulLocked(t)
    /\ UNCHANGED <<pq, closed, elapsed, enqCount, out, entry, immDone, fairVars>>

SyncShutdownGracefulNotify(t) ==
    /\ pc[t] = "sg_notify"
    /\ NotifyAll
    /\ SetPc(t, "idle")
    /\ entry' = [entry EXCEPT ![t] = "-"]
    /\ ev' = <<"shutdown_graceful", "Ok">>
    /\ UNCHANGED <<pq, closed, elapsed, enqCount, out, immDone, fairVars>>

SyncShutdownTimeout(t) ==
    /\ pc[t] = "idle"
    /\ closed' = TRUE
    /\ entry' = [entry EXCEPT ![t] = EntryOf]
    /\ IF FairIsEmpty(pq)
       THEN /\ SetPc(t, "st_notify")
            /\ ev' = <<"shutdown_timeout", "empty">>
            /\ UNCHANGED waiters
       ELSE /\ SetPc(t, "st_wait")
            /\ ev' = <<"shutdown_timeout", "wait">>
            /\ waiters' = waiters \cup {t}
    /\ UNCHANGED <<pq, elapsed, enqCount, out, immDone, fairVars>>

\* the deadline of wait_timeout_while passes: a sleeping thread wakes by itself
SyncTimeoutExpire(t) ==
    /\ pc[t] = "st_wait"
    /\ ~elapsed[t]
    /\ elapsed' = [elapsed EXCEPT ![t] = TRUE]
    /\ waiters' = waiters \ {t}
    /\ ev' = <<"shutdown_timeout", "expire">>
    /\ UNCHANGED <<pq, closed, pc, enqCount, out, entry, immDone, fairVars>>

\* mutant: the deadline is looked at before the queue
SyncShutdownTimeoutWake_DeadlineFirst(t) ==
    /\ pc[t] = "st_wait"
    /\ t \notin waiters
    /\ IF elapsed[t]
       THEN /\ SetPc(t, "idle")
            /\ ev' = <<"shutdown_timeout", "Timeout">>
            /\ elapsed' = [elapsed EXCEPT ![t] = FALSE]
            /\ entry' = [entry EXCEPT ![t] = "-"]
            /\ UNCHANGED waiters
       ELSE IF FairIsEmpty(pq)
       THEN /\ SetPc(t, "st_notify")
            /\ ev' = <<"shutdown_timeout", "empty">>
            /\ UNCHANGED <<waiters, elapsed, entry>>
       ELSE /\ waiters' = waiters \cup {t}
            /\ ev' = <<"shutdown_timeout", "wait">>
            /\ UNCHANGED <<pc, elapsed, entry>>
    /\ UNCHANGED <<pq, closed, enqCount, out, immDone, fairVars>>

\* mutant: a timed-out shutdown discards what is left, as shutdown_immediate does
SyncShutdownTimeoutWake_DrainOnTimeout(t) ==
    /\ pc[t] = "st_wait"
    /\ t \notin waiters
    /\ IF FairIsEmpty(pq)
       THEN /\ SetPc(t, "st_notify")
            /\ ev' = <<"shutdown_timeout", "empty">>
            /\ UNCHANGED <<pq, waiters, elapsed, entry>>
       ELSE IF elapsed[t]
       THEN /\ SetPc(t, "idle")
            /\ pq' = Drain(pq)
            /\ ev' = <<"shutdown_timeout", "Timeout">>
            /\ elapsed' = [elapsed EXCEPT ![t] = FALSE]
            /\ entry' = [entry EXCEPT ![t] = "-"]
            /\ UNCHANGED waiters
       ELSE /\ waiters' = waiters \cup {t}
            /\ ev' = <<"shutdown_timeout", "wait">>
            /\ UNCHANGED <<pq, pc, elapsed, entry>>
    /\ UNCHANGED <<closed, enqCount, out, immDone, fairVars>>

\* mutant: the wait goes on after the deadline, as wait_while would
SyncShutdownTimeoutWake_NoDeadline(t) ==
    /\ pc[t] = "st_wait"
    /\ t \notin waiters
    /\ IF FairIsEmpty(pq)
       THEN /\ SetPc(t, "st_notify")
            /\ ev' = <<"shutdown_timeout", "empty">>
            /\ UNCHANGED waiters
       ELSE /\ waiters' = waiters \cup {t}
            /\ ev' = <<"shutdown_timeout", "wait">>
            /\ UNCHANGED pc
    /\ UNCHANGED <<pq, closed, elapsed, entry, enqCount, out, immDone, fairVars>>

\* wait_timeout_while with the lock again: the predicate first, then the
\* deadline; then lines 519-525
SyncShutdownTimeoutWake(t) ==
    /\ pc[t] = "st_wait"
    /\ t \notin waiters
    /\ IF FairIsEmpty(pq)
       THEN /\ SetPc(t, "st_notify")
            /\ ev' = <<"shutdown_timeout", "empty">>
            /\ UNCHANGED <<waiters, elapsed, entry>>
       ELSE IF elapsed[t]
       THEN /\ SetPc(t, "idle")
            /\ ev' = <<"shutdown_timeout", "Timeout">>
            /\ elapsed' = [elapsed EXCEPT ![t] = FALSE]
            /\ entry' = [entry EXCEPT ![t] = "-"]
            /\ UNCHANGED waiters
       ELSE /\ waiters' = waiters \cup {t}
            /\ ev' = <<"shutdown_timeout", "wait">>
            /\ UNCHANGED <<pc, elapsed, entry>>
    /\ UNCHANGED <<pq, closed, enqCount, out, immDone, fairVars>>

\* mutant: shutdown_timeout returns ok without waking anybody
SyncShutdownTimeoutNotify_NoNotify(t) ==
    /\ pc[t] = "st_notify"
    /\ UNCHANGED waiters
    /\ SetPc(t, "idle")
    /\ elapsed' = [elapsed EXCEPT ![t] = FALSE]
    /\ entry' = [entry EXCEPT ![t] = "-"]
    /\ ev' = <<"shutdown_timeout", "Ok">>
    /\ UNCHANGED <<pq, closed, enqCount, out, immDone, fairVars>>

SyncShutdownTimeoutNotify(t) ==
    /\ pc[t] = "st_notify"
    /\ NotifyAll
    /\ SetPc(t, "idle")
    /\ elapsed' = [elapsed EXCEPT ![t] = FALSE]
    /\ entry' = [entry EXCEPT ![t] = "-"]
    /\ ev' = <<"shutdown_timeout", "Ok">>
    /\ UNCHANGED <<pq, closed, enqCount, out, immDone, fairVars>>

\* Condvar::wait may return without any notify
SpuriousWake(t) ==
    /\ t \in waiters
    /\ waiters' = waiters \ {t}
    /\ ev' = <<"cv", "spurious">>
    /\ UNCHANGED <<pq, closed, pc, elapsed, enqCount, out, entry, immDone, fairVars>>

\* ---------------------------- Spec: threads calling the queue as they like
Init == InitFair

\* Thread t starts a call.  Spec bounds the number of calls.  Threads that are
\* in no call are interchangeable (an idle thread carries no state), so the
\* call is given to the first of them.
BeginCall(t) ==
    /\ ncalls < MaxCalls
    /\ ncalls' = ncalls + 1
    /\ UNCHANGED app
    /\ \A u \in Threads : u < t => pc[u] # "idle"

Next ==
    \E t \in Threads :
        \/ BeginCall(t) /\ \E prio \in PrioArgs, e \in EntityArgs : SyncEnqueue(t, prio, e)
        \/ BeginCall(t) /\ SyncTryDequeue(t)
        \/ BeginCall(t) /\ SyncDequeue(t)
        \/ BeginCall(t) /\ SyncShutdownImmediate(t)
        \/ BeginCall(t) /\ SyncShutdownGraceful(t)
        \/ BeginCall(t) /\ SyncShutdownTimeout(t)
        \/ SyncEnqueueNotify(t) /\ UNCHANGED <<ncalls, app>>
        \/ SyncDequeueWake(t) /\ UNCHANGED <<ncalls, app>>
        \/ SyncDequeueNotify(t) /\ UNCHANGED <<ncalls, app>>
        \/ SyncShutdownImmediateNotify(t) /\ UNCHANGED <<ncalls, app>>
        \/ SyncShutdownGracefulWake(t) /\ UNCHANGED <<ncalls, app>>
        \/ SyncShutdownGracefulNotify(t) /\ UNCHANGED <<ncalls, app>>
        \/ SyncTimeoutExpire(t) /\ UNCHANGED <<ncalls, app>>
        \/ SyncShutdownTimeoutWake(t) /\ UNCHANGED <<ncalls, app>>
        \/ SyncShutdownTimeoutNotify(t) /\ UNCHANGED <<ncalls, app>>
        \/ SpuriousWake(t) /\ UNCHANGED <<ncalls, app>>

Spec == Init /\ [][Next]_vars

\* ------------------- SpecLive: Spec with threads that keep running
\* The calls of Spec, LiveCalls of them, under the scheduling the code relies
\* on: a thread that is inside a call and is not asleep on the condition
\* variable gets to take its next step (the mutex is handed over, a woken
\* thread runs), and the deadline of a timed wait passes.  Nothing promises
\* that a new call is made, nor a spurious wakeup.
LiveCalls == 3

BeginLive(t) ==
    /\ ncalls < LiveCalls
    /\ ncalls' = ncalls + 1
    /\ UNCHANGED app
    /\ \A u \in Threads : u < t => pc[u] # "idle"

\* the next step of thread t's call in progress
Proceed(t) ==
    \/ SyncEnqueueNotify(t)
    \/ SyncDequeueWake(t)
    \/ SyncDequeueNotify(t)
    \/ SyncShutdownImmediateNotify(t)
    \/ SyncShutdownGracefulWake(t)
    \/ SyncShutdownGracefulNotify(t)
    \/ SyncShutdownTimeoutWake(t)
    \/ SyncShutdownTimeoutNotify(t)

NextLive ==
    \E t \in Threads :
        \/ BeginLive(t) /\ \E prio \in PrioArgs, e \in EntityArgs : SyncEnqueue(t, prio, e)
        \/ BeginLive(t) /\ SyncTryDequeue(t)
        \/ BeginLive(t) /\ SyncDequeue(t)
        \/ BeginLive(t) /\ SyncShutdownImmediate(t)
        \/ BeginLive(t) /\ SyncShutdownGraceful(t)
        \/ BeginLive(t) /\ SyncShutdownTimeout(t)
        \/ SyncEnqueueNotify(t) /\ UNCHANGED <<ncalls, app>>
        \/ SyncDequeueWake(t) /\ UNCHANGED <<ncalls, app>>
        \/ SyncDequeueNotify(t) /\ UNCHANGED <<ncalls, app>>
        \/ SyncShutdownImmediateNotify(t) /\ UNCHANGED <<ncalls, app>>
        \/ SyncShutdownGracefulWake(t) /\ UNCHANGED <<ncalls, app>>
        \/ SyncShutdownGracefulNotify(t) /\ UNCHANGED <<ncalls, app>>
        \/ SyncTimeoutExpire(t) /\ UNCHANGED <<ncalls, app>>
        \/ SyncShutdownTimeoutWake(t) /\ UNCHANGED <<ncalls, app>>
        \/ SyncShutdownTimeoutNotify(t) /\ UNCHANGED <<ncalls, app>>
        \/ SpuriousWake(t) /\ UNCHANGED <<ncalls, app>>

SpecLive ==
    /\ Init
    /\ [][NextLive]_vars
    /\ \A t \in Threads : WF_vars(Proceed(t) /\ UNCHANGED <<ncalls, app>>)
    /\ \A t \in Threads : WF_vars(SyncTimeoutExpire(t) /\ UNCHANGED <<ncalls, app>>)

\* ------------- SpecGraceful: a graceful shutdown with consumers draining
\* The scenario of tests::test_shutdown_graceful with the callers let loose:
\* a producer enqueues up to GItems items and stops at the first refusal,
\* each consumer calls dequeue until it gets Closed, and the main thread calls
\* shutdown_graceful once, at a moment when the queue is not empty.
GItems == 2
GMain == 1
GProducer == 2
GConsumers == 3..NThreads

SetBpc(t, where) == app' = [app EXCEPT !.bpc[t] = where]

InitGraceful ==
    /\ pq = FairNew(NPrio)
    /\ closed = FALSE
    /\ enqCount = [p \in Prios |-> [e \in Entities |-> 0]]
    /\ fres = <<"new">>
    /\ ref = RefNew
    /\ refRes = <<"new">>
    /\ win = [p \in Prios |-> <<>>]
    /\ pc = [t \in Threads |-> "idle"]
    /\ waiters = {}
    /\ elapsed = [t \in Threads |-> FALSE]
    /\ ev = <<"new">>
    /\ ncalls = 0
    /\ out = {}
    /\ entry = [t \in Threads |-> "-"]
    /\ immDone = FALSE
    /\ app = [bpc |-> [t \in Threads |-> "call"]]

GEnqueue(t) ==
    /\ t = GProducer
    /\ app.bpc[t] = "call"
    /\ \E prio \in Prios : SyncEnqueue(t, prio, 1)
    /\ SetBpc(t, IF ev' = <<"enqueue", "queued">> THEN "in-call" ELSE "done")

GEnqueueNotify(t) ==
    /\ app.bpc[t] = "in-call"
    /\ SyncEnqueueNotify(t)
    /\ SetBpc(t, IF TotalEnqueued < GItems THEN "call" ELSE "done")

\* the consumer's loop: again after an item, out after Closed
GAfterDequeue(t) ==
    SetBpc(t, IF pc'[t] # "idle" THEN "in-call"
              ELSE IF ev' = <<"dequeue", "Closed">> THEN "done" ELSE "call")

GDequeue(t) ==
    /\ t \in GConsumers
    /\ app.bpc[t] = "call"
    /\ SyncDequeue(t)
    /\ GAfterDequeue(t)

GDequeueWake(t) ==
    /\ app.bpc[t] = "in-call"
    /\ SyncDequeueWake(t)
    /\ GAfterDequeue(t)

GDequeueNotify(t) ==
    /\ app.bpc[t] = "in-call"
    /\ SyncDequeueNotify(t)
    /\ GAfterDequeue(t)

GShutdown(t) ==
    /\ t = GMain
    /\ app.bpc[t] = "call"
    /\ ~FairIsEmpty(pq)
    /\ SyncShutdownGraceful(t)
    /\ SetBpc(t, "in-call")

GShutdownWake(t) ==
    /\ app.bpc[t] = "in-call"
    /\ SyncShutdownGracefulWake(t)
    /\ UNCHANGED app

GShutdownNotify(t) ==
    /\ app.bpc[t] = "in-call"
    /\ SyncShutdownGracefulNotify(t)
    /\ SetBpc(t, "done")

\* the steps thread t takes by itself
GStep(t) ==
    \/ GEnqueue(t)
    \/ GEnqueueNotify(t)
    \/ GDequeue(t)
    \/ GDequeueWake(t)
    \/ GDequeueNotify(t)
    \/ GShutdown(t)
    \/ GShutdownWake(t)
    \/ GShutdownNotify(t)

NextGraceful ==
    \E t \in Threads :
        \/ GEnqueue(t) /\ UNCHANGED ncalls
        \/ GEnqueueNotify(t) /\ UNCHANGED ncalls
        \/ GDequeue(t) /\ UNCHANGED ncalls
        \/ GDequeueWake(t) /\ UNCHANGED ncalls
        \/ GDequeueNotify(t) /\ UNCHANGED ncalls
        \/ GShutdown(t) /\ UNCHANGED ncalls
        \/ GShutdownWake(t) /\ UNCHANGED ncalls
        \/ GShutdownNotify(t) /\ UNCHANGED ncalls
        \/ SpuriousWake(t) /\ UNCHANGED <<ncalls, app>>

\* every thread that can take a step of its own gets to take one; nothing
\* promises a spurious wakeup
SpecGraceful ==
    /\ InitGraceful
    /\ [][NextGraceful]_vars
    /\ \A t \in Threads : WF_vars(GStep(t) /\ UNCHANGED ncalls)

\* ------------------- SpecBench: pq-bench-sync with --implm syncpq
\* NProducers producers send NItems Data messages between them through the
\* capacity gate, NConsumers consumers loop on dequeue until they get Stop,
\* and the main thread, once NItems latencies have arrived, sends one Stop per
\* consumer, joins everybody and shuts the queue down.
NProducers == 2
NConsumers == 2
NItems == 3
Capacity == 1

BProducers == 1..NProducers
BConsumers == (NProducers + 1)..(NProducers + NConsumers)
BMain == NProducers + NConsumers + 1
BThreads == 1..BMain

\* Msg::Stop; Msg::Data is a numbered item of priority 0, entity key 0 (the
\* model's entity 1)
StopMsg == <<0, 1, 0>>

\* base + if pid < extra { 1 } else { 0 }, pid counted from 0
Share(t) == (NItems \div NProducers) + (IF t - 1 < NItems % NProducers THEN 1 ELSE 0)

InitBench ==
    /\ pq = FairNew(1)
    /\ closed = FALSE
    /\ enqCount = [p \in Prios |-> [e \in Entities |-> 0]]
    /\ fres = <<"new">>
    /\ ref = RefNew
    /\ refRes = <<"new">>
    /\ win = [p \in Prios |-> <<>>]
    /\ pc = [t \in BThreads |-> "idle"]
    /\ waiters = {}
    /\ elapsed = [t \in BThreads |-> FALSE]
    /\ ev = <<"new">>
    /\ ncalls = 0
    /\ out = {}
    /\ entry = [t \in BThreads |-> "-"]
    /\ immDone = FALSE
    /\ app = [bpc |-> [t \in BThreads |->
                         IF t \in BProducers
                         THEN (IF Share(t) = 0 THEN "done" ELSE "acquire")
                         ELSE IF t \in BConsumers THEN "dequeue" ELSE "collect"],
              slots |-> 0,
              gateWaiters |-> {},
              left |-> [t \in BProducers |-> Share(t)],
              lats |-> 0,
              stops |-> 0,
              held |-> [t \in BConsumers |-> NoItem],
              seen |-> [k \in 1..NItems |-> 0]]

\* acquire_slot with the gate's lock: while *n >= cap { wait }; *n += 1
AcquireLocked(t) ==
    IF app.slots >= Capacity
    THEN app' = [app EXCEPT !.gateWaiters = @ \cup {t}, !.bpc[t] = "gate_wait"]
    ELSE app' = [app EXCEPT !.slots = @ + 1, !.bpc[t] = "enqueue"]

BAcquireSlot(t) ==
    /\ app.bpc[t] = "acquire"
    /\ AcquireLocked(t)
    /\ UNCHANGED <<pq, closed, pc, waiters, elapsed, ev, enqCount, out, entry,
                   immDone, fairVars>>

BGateWake(t) ==
    /\ app.bpc[t] = "gate_wait"
    /\ t \notin app.gateWaiters
    /\ AcquireLocked(t)
    /\ UNCHANGED <<pq, closed, pc, waiters, elapsed, ev, enqCount, out, entry,
                   immDone, fairVars>>

\* gate.cv.wait may return without any notify
BGateSpuriousWake(t) ==
    /\ t \in app.gateWaiters
    /\ app' = [app EXCEPT !.gateWaiters = @ \ {t}]
    /\ UNCHANGED <<pq, closed, pc, waiters, elapsed, ev, enqCount, out, entry,
                   immDone, fairVars>>

\* self.pq.enqueue(0, 0, m).unwrap() for a Data message
BEnqueueData(t) ==
    /\ app.bpc[t] = "enqueue"
    /\ SyncEnqueue(t, 0, 1)
    /\ app' = [app EXCEPT !.bpc[t] = IF ev' = <<"enqueue", "queued">>
                                     THEN "enqueuing" ELSE "panicked"]

BEnqueueDataNotify(t) ==
    /\ t \in BProducers
    /\ app.bpc[t] = "enqueuing"
    /\ SyncEnqueueNotify(t)
    /\ app' = [app EXCEPT !.left[t] = @ - 1,
                          !.bpc[t] = IF app.left[t] = 1 THEN "done" ELSE "acquire"]

\* the consumer after a step of its dequeue call: the message it took stays
\* with it until the call returns; then Data goes on to release_slot, Stop
\* ends the loop, and unwrap() panics on an error
BAfterDequeue(t) ==
    LET msg == IF Len(ev') = 3 THEN ev'[3] ELSE app.held[t]
    IN app' = [app EXCEPT
                 !.held[t] = msg,
                 !.bpc[t] = IF pc'[t] # "idle" THEN "dequeuing"
                            ELSE IF ev' = <<"dequeue", "Closed">> THEN "panicked"
                            ELSE IF msg = StopMsg THEN "done"
                            ELSE "release"]

BDequeue(t) ==
    /\ app.bpc[t] = "dequeue"
    /\ SyncDequeue(t)
    /\ BAfterDequeue(t)

BDequeueWake(t) ==
    /\ app.bpc[t] = "dequeuing"
    /\ SyncDequeueWake(t)
    /\ BAfterDequeue(t)

BDequeueNotify(t) ==
    /\ app.bpc[t] = "dequeuing"
    /\ SyncDequeueNotify(t)
    /\ BAfterDequeue(t)

\* release_slot: *n -= 1; gate.cv.notify_one(); then, back in the consumer's
\* loop, lat_tx.send(ns).  The send touches nothing but the aggregator's
\* channel, which only the main thread reads, so it is taken with the release.
BReleaseSlot(t) ==
    /\ app.bpc[t] = "release"
    /\ \E w \in (IF app.gateWaiters = {} THEN {0} ELSE app.gateWaiters) :
           app' = [app EXCEPT !.slots = @ - 1,
                              !.gateWaiters = @ \ {w},
                              !.lats = @ + 1,
                              !.seen[app.held[t][3]] = @ + 1,
                              !.held[t] = NoItem,
                              !.bpc[t] = "dequeue"]
    /\ UNCHANGED <<pq, closed, pc, waiters, elapsed, ev, enqCount, out, entry,
                   immDone, fairVars>>

\* for _ in 0..n_items { lat_rx.recv() }: over once n_items latencies came
BCollect(t) ==
    /\ app.bpc[t] = "collect"
    /\ app.lats = NItems
    /\ app' = [app EXCEPT !.bpc[t] = IF NConsumers = 0 THEN "join" ELSE "stop"]
    /\ UNCHANGED <<pq, closed, pc, waiters, elapsed, ev, enqCount, out, entry,
                   immDone, fairVars>>

\* q.enqueue_data(Msg::Stop): no slot is taken for a Stop
BEnqueueStop(t) ==
    /\ app.bpc[t] = "stop"
    /\ SyncEnqueueItem(t, 0, 1, StopMsg)
    /\ UNCHANGED enqCount
    /\ app' = [app EXCEPT !.bpc[t] = IF ev' = <<"enqueue", "queued">>
                                     THEN "stopping" ELSE "panicked"]

BEnqueueStopNotify(t) ==
    /\ app.bpc[t] = "stopping"
    /\ SyncEnqueueNotify(t)
    /\ app' = [app EXCEPT !.stops = @ + 1,
                          !.bpc[t] = IF app.stops + 1 = NConsumers THEN "join" ELSE "stop"]

\* h.join() for every producer and consumer
BJoin(t) ==
    /\ app.bpc[t] = "join"
    /\ \A u \in BProducers \cup BConsumers : app.bpc[u] = "done"
    /\ app' = [app EXCEPT !.bpc[t] = "shutdown"]
    /\ UNCHANGED <<pq, closed, pc, waiters, elapsed, ev, enqCount, out, entry,
                   immDone, fairVars>>

\* --shutdown immediate
BShutdownImmediate(t) ==
    /\ app.bpc[t] = "shutdown"
    /\ SyncShutdownImmediate(t)
    /\ app' = [app EXCEPT !.bpc[t] = "closing"]

BShutdownImmediateNotify(t) ==
    /\ app.bpc[t] = "closing"
    /\ SyncShutdownImmediateNotify(t)
    /\ app' = [app EXCEPT !.bpc[t] = "done"]

\* --shutdown graceful; everybody has been joined, so nobody can wake a main
\* thread that finds the queue non-empty and sleeps
BShutdownGraceful(t) ==
    /\ app.bpc[t] = "shutdown"
    /\ SyncShutdownGraceful(t)
    /\ app' = [app EXCEPT !.bpc[t] = "closing"]

BShutdownGracefulNotify(t) ==
    /\ app.bpc[t] = "closing"
    /\ SyncShutdownGracefulNotify(t)
    /\ app' = [app EXCEPT !.bpc[t] = "done"]

\* any other --shutdown: the queue is left open
BShutdownNone(t) ==
    /\ app.bpc[t] = "shutdown"
    /\ app' = [app EXCEPT !.bpc[t] = "done"]
    /\ UNCHANGED <<pq, closed, pc, waiters, elapsed, ev, enqCount, out, entry,
                   immDone, fairVars>>

\* the steps thread t takes by itself
BStep(t) ==
    \/ BAcquireSlot(t)
    \/ BGateWake(t)
    \/ BEnqueueData(t)
    \/ BEnqueueDataNotify(t)
    \/ BDequeue(t)
    \/ BDequeueWake(t)
    \/ BDequeueNotify(t)
    \/ BReleaseSlot(t)
    \/ BCollect(t)
    \/ BEnqueueStop(t)
    \/ BEnqueueStopNotify(t)
    \/ BJoin(t)
    \/ BShutdownImmediate(t)
    \/ BShutdownImmediateNotify(t)
    \/ BShutdownGraceful(t)
    \/ BShutdownGracefulNotify(t)
    \/ BShutdownNone(t)

NextBench ==
    \E t \in BThreads :
        \/ BAcquireSlot(t) /\ UNCHANGED ncalls
        \/ BGateWake(t) /\ UNCHANGED ncalls
        \/ BGateSpuriousWake(t) /\ UNCHANGED ncalls
        \/ BEnqueueData(t) /\ UNCHANGED ncalls
        \/ BEnqueueDataNotify(t) /\ UNCHANGED ncalls
        \/ BDequeue(t) /\ UNCHANGED ncalls
        \/ BDequeueWake(t) /\ UNCHANGED ncalls
        \/ BDequeueNotify(t) /\ UNCHANGED ncalls
        \/ BReleaseSlot(t) /\ UNCHANGED ncalls
        \/ BCollect(t) /\ UNCHANGED ncalls
        \/ BEnqueueStop(t) /\ UNCHANGED ncalls
        \/ BEnqueueStopNotify(t) /\ UNCHANGED ncalls
        \/ BJoin(t) /\ UNCHANGED ncalls
        \/ BShutdownImmediate(t) /\ UNCHANGED ncalls
        \/ BShutdownImmediateNotify(t) /\ UNCHANGED ncalls
        \/ BShutdownGraceful(t) /\ UNCHANGED ncalls
        \/ BShutdownGracefulNotify(t) /\ UNCHANGED ncalls
        \/ BShutdownNone(t) /\ UNCHANGED ncalls
        \/ SpuriousWake(t) /\ UNCHANGED <<ncalls, app>>

\* every thread that can take a step of its own gets to take one; nothing
\* promises a spurious wakeup
SpecBench ==
    /\ InitBench
    /\ [][NextBench]_vars
    /\ \A t \in BThreads : WF_vars(BStep(t) /\ UNCHANGED ncalls)

\* ------------------------------------------------------ fixed scenarios
\* a script of enqueue calls <<prio, entity, item>> applied to a queue
RECURSIVE EnqueueAll(_, _)
EnqueueAll(q, calls) ==
    IF calls = <<>> THEN q
    ELSE EnqueueAll(FairEnqueue(q, calls[1][1], calls[1][2], calls[1][3]).q, Tail(calls))

\* the results of n successive try_dequeue calls
RECURSIVE DequeueN(_, _)
DequeueN(q, n) ==
    IF n = 0 THEN <<>>
    ELSE LET r == FairTryDequeue(q) IN <<r.item>> \o DequeueN(r.q, n - 1)

ItemsOf(prio, e, n) == [k \in 1..n |-> <<prio, e, <<e, k>>>>]

\* A, B, C active in that order at one level, depths 4, 2, 1
OneLevelScript == ItemsOf(1, "A", 4) \o ItemsOf(1, "B", 2) \o ItemsOf(1, "C", 1)
OneLevelOut == DequeueN(EnqueueAll(FairNew(3), OneLevelScript), 8)

\* tests::it_works of pq-fair: C is enqueued last, at priority 0
ItWorksScript == ItemsOf(1, "A", 4) \o ItemsOf(1, "B", 2) \o ItemsOf(0, "C", 1)
ItWorksOut == DequeueN(EnqueueAll(FairNew(3), ItWorksScript), 8)

\* ------------------------------------------------------------ claims
LevelHoldsNothing(level) ==
    \A e \in DOMAIN level.by_entities : level.by_entities[e] = <<>>

QueueHoldsNothing(q) == \A i \in 1..Len(q) : LevelHoldsNothing(q[i])

\* the number of items a level, a queue holds
LevelSize(level) ==
    LET RECURSIVE Sum(_)
        Sum(S) == IF S = {} THEN 0
                  ELSE LET e == CHOOSE x \in S : TRUE
                       IN Len(level.by_entities[e]) + Sum(S \ {e})
    IN Sum(DOMAIN level.by_entities)

RECURSIVE QueueSize(_)
QueueSize(q) == IF q = <<>> THEN 0 ELSE LevelSize(Head(q)) + QueueSize(Tail(q))

\* C3: round-robin order.  Whatever enqueues and try_dequeues are interleaved
\* on the fair queue, each call returns what the reference scheduler returns
\* (lowest non-empty level, head of the roster served, moved to the tail if it
\* still has items, evicted otherwise, a newly active entity appended at the
\* tail); and A, B, C active in that order with depths 4, 2, 1 are served
\* A, B, C, A, B, A, A.
C3_RoundRobinOrder ==
    /\ fres = refRes
    /\ OneLevelOut = << <<"A", 1>>, <<"B", 1>>, <<"C", 1>>, <<"A", 2>>,
                        <<"B", 2>>, <<"A", 3>>, <<"A", 4>>, NoItem >>

\* entity 1 was served, rotated behind entity 2, served again and evicted
C3_Witness ==
    /\ fres = <<"try_dequeue", <<0, 1, 2>>>>
    /\ pq[1].rr = <<2>>
    /\ enqCount[0][2] = 2

WinEnts(w, j) == {w[i].ent : i \in j..Len(w)}

\* C4 (as claimed): in a window of |E| consecutive dequeues of one level
\* during which every entity of E stays active, each entity of E is served.
C4_WindowOfSizeE ==
    \A p \in Prios : \A j \in 1..Len(win[p]) :
        \A E \in SUBSET win[p][j].stay :
            (E # {} /\ Cardinality(E) = Len(win[p]) - j + 1)
                => E \subseteq WinEnts(win[p], j)

\* C4 (amended): in a window of n consecutive dequeues of one level, n being
\* the number of entities active at that level when the window starts, every
\* entity active at its start is served.
C4_WindowOfActiveCount ==
    \A p \in Prios : \A j \in 1..Len(win[p]) :
        Cardinality(win[p][j].before) = Len(win[p]) - j + 1
            => win[p][j].before \subseteq WinEnts(win[p], j)

\* a full window over two active entities that both stay active
C4_Witness ==
    \E p \in Prios : \E j \in 1..Len(win[p]) :
        /\ Cardinality(win[p][j].before) = 2
        /\ Len(win[p]) - j + 1 = 2
        /\ win[p][j].stay = win[p][j].before

RosterSet(level) == {level.rr[i] : i \in 1..Len(level.rr)}

LevelWellFormed(level) ==
    /\ RosterSet(level) = level.actives
    /\ level.actives = DOMAIN level.by_entities
    /\ \A e \in DOMAIN level.by_entities : level.by_entities[e] # <<>>
    /\ \A i, j \in 1..Len(level.rr) : level.rr[i] = level.rr[j] => i = j

\* C22: level structure invariant.  After any sequence of enqueue and
\* try_dequeue calls, in every level the entities of rr are those of actives
\* and the keys of by_entities, every sequence of by_entities is non-empty,
\* and no entity is twice in rr.
C22_LevelInvariant == \A i \in 1..Len(pq) : LevelWellFormed(pq[i])

\* entity 1 was enqueued twice at one level, entity 2 once, after a serve:
\* the roster holds each of them once
C22_Witness ==
    /\ fres[1] = "enqueue"
    /\ \E i \in 1..Len(pq) :
         /\ Len(pq[i].rr) = 2
         /\ \E e \in pq[i].actives : Len(pq[i].by_entities[e]) = 2
         /\ \E e \in Entities : e \notin pq[i].actives /\ enqCount[i - 1][e] > 0

RECURSIVE RosterTotal(_)
RosterTotal(q) == IF q = <<>> THEN 0 ELSE Len(Head(q).rr) + RosterTotal(Tail(q))

\* the levels of q that hold an item
NonEmptyLevels(q) == {i \in 1..Len(q) : ~LevelHoldsNothing(q[i])}

\* C23: try_dequeue returns None exactly when nothing is queued.  A call of
\* try_dequeue on the fair queue returns None if and only if no level holds
\* an item, which is when every roster is empty, and then changes nothing;
\* otherwise it serves the first level that holds an item: the head of that
\* level's roster has a non-empty sequence, the item returned is the head of
\* that sequence, one item and at most one roster entry leave the queue, and
\* no other level is touched.  No roster entry goes without an item returned.
C23_NoneIffEmpty ==
    [][fres'[1] = "try_dequeue" =>
         LET item == fres'[2]
             S == NonEmptyLevels(pq)
         IN /\ (item = NoItem) <=> (S = {})
            /\ (S = {}) <=> (\A i \in 1..Len(pq) : pq[i].rr = <<>>)
            /\ item = NoItem => pq' = pq
            /\ RosterTotal(pq') < RosterTotal(pq) =>
                   (item # NoItem /\ RosterTotal(pq') = RosterTotal(pq) - 1)
            /\ item # NoItem =>
                   LET i == CHOOSE k \in S : \A j \in S : k <= j
                       e == Head(pq[i].rr)
                   IN /\ e \in DOMAIN pq[i].by_entities
                      /\ pq[i].by_entities[e] # <<>>
                      /\ item = Head(pq[i].by_entities[e])
                      /\ \A j \in 1..Len(pq) : j # i => pq'[j] = pq[j]
                      /\ pq'[i] # pq[i]
                      /\ QueueSize(pq') = QueueSize(pq) - 1]_vars

\* try_dequeue went past an emptied level 0 and served the last item of level 1
C23_Witness ==
    /\ fres[1] = "try_dequeue" /\ fres[2] # NoItem
    /\ fres[2][1] = 1
    /\ \E e \in Entities : enqCount[0][e] > 0
    /\ QueueHoldsNothing(pq)

\* ---------------------------------------------- claims on SpecPlain
\* tests::it_works of src/lib.rs, on the plain queue and, with one entity,
\* on the fair queue: the four try_dequeue results
PlainItWorksOut ==
    LET d0 == PlainTryDequeue(PlainNew(3))
        q1 == PlainEnqueue(d0.q, 1, <<"hello world">>).q
        q2 == PlainEnqueue(q1, 0, <<"foobar">>).q
        d1 == PlainTryDequeue(q2)
        d2 == PlainTryDequeue(d1.q)
        d3 == PlainTryDequeue(d2.q)
    IN <<d0.item, d1.item, d2.item, d3.item>>

FairItWorksOut ==
    LET d0 == FairTryDequeue(FairNew(3))
        q1 == FairEnqueue(d0.q, 1, "e", <<"hello world">>).q
        q2 == FairEnqueue(q1, 0, "e", <<"foobar">>).q
        d1 == FairTryDequeue(q2)
        d2 == FairTryDequeue(d1.q)
        d3 == FairTryDequeue(d2.q)
    IN <<d0.item, d1.item, d2.item, d3.item>>

\* what level i of the fair queue holds for the entity of its priority
OwnerItems(i) ==
    LET e == app.owner[i - 1]
    IN IF e \in DOMAIN pq[i].by_entities THEN pq[i].by_entities[e] ELSE <<>>

\* C28: the degenerate case refines the plain queue.  When every enqueue of a
\* priority passes the same entity, the fair queue and the plain per-priority
\* FIFO queue, given the same enqueue(prio, item) and try_dequeue calls,
\* answer the same at every step (Ok, BadPriority(prio), the item, None) and
\* hold the same items in the same order at every priority; and the calls of
\* the plain queue's test give None, foobar, hello world, None on both.
C28_DegenerateIsFifo ==
    /\ fres = refRes
    /\ Len(pq) = Len(ref)
    /\ \A i \in 1..Len(pq) :
         /\ ref[i] = OwnerItems(i)
         /\ DOMAIN pq[i].by_entities \subseteq {app.owner[i - 1]}
    /\ PlainItWorksOut = <<NoItem, <<"foobar">>, <<"hello world">>, NoItem>>
    /\ FairItWorksOut = PlainItWorksOut

\* both queues have just returned the second item of priority 0 while the
\* first item of priority 1 waits
C28_Witness ==
    /\ fres = <<"try_dequeue", <<0, app.owner[0], 2>>>>
    /\ refRes = fres
    /\ ref[2] # <<>>
    /\ ref[2][1][3] = 1

\* ----------------------------------------------- claims on Spec
\* every item accepted so far
Accepted == {x \in Prios \X Entities \X (1..MaxCalls) : x[3] <= enqCount[x[1]][x[2]]}

Shutdowns == {"shutdown_immediate", "shutdown_graceful", "shutdown_timeout"}

\* the step hands an item to a caller of try_dequeue or dequeue
HandsOut == Len(ev') = 3 /\ ev'[2] = "Some"

\* C1: priority strictness.  Whenever try_dequeue or dequeue hands out an item
\* of priority p, no item is queued at a priority q < p at that moment, and
\* every item accepted before at a priority q < p has been handed out already
\* (so of two items queued before any dequeue, the lower priority number
\* comes out first).
C1_PriorityStrict ==
    [][HandsOut =>
         LET y == ev'[3]
         IN /\ \A q \in Prios : q < y[1] => LevelHoldsNothing(pq[q + 1])
            /\ \A x \in Accepted : x[1] < y[1] => x \in out]_vars

\* a blocking dequeue hands out a priority-1 item after a priority-0 item
C1_Witness ==
    /\ ev = <<"dequeue", "Some", <<1, 1, 1>>>>
    /\ <<0, 1, 1>> \in out

\* C2: per-entity FIFO.  In any interleaving of enqueue, try_dequeue and
\* dequeue, the item handed out from (p, e) is the oldest item accepted at
\* (p, e) that has not been handed out: items of (p, e) come out in the order
\* in which their enqueues took the lock, none twice.
C2_PerEntityFifo ==
    [][HandsOut =>
         LET y == ev'[3]
         IN /\ y \notin out
            /\ y \in Accepted
            /\ out' = out \cup {y}
            /\ \A k \in 1..(y[3] - 1) : <<y[1], y[2], k>> \in out]_vars

\* a woken dequeue hands out the second item of (0, 1) after the first
C2_Witness ==
    /\ ev = <<"dequeue", "Some", <<0, 1, 2>>>>
    /\ <<0, 1, 1>> \in out

\* C6: one notify_one per enqueue is enough.  Whenever a thread sleeps in
\* dequeue while the queue is non-empty or closed, some call in progress can
\* still run (a thread between its locked section and its notify, a woken
\* thread, a timed wait): if none can, the sleeper is never woken.
C6_NoLostWakeup ==
    \A t \in Threads :
        (pc[t] = "deq_wait" /\ t \in waiters /\ (~FairIsEmpty(pq) \/ closed))
            => \E u \in Threads :
                   /\ pc[u] # "idle"
                   /\ u \notin waiters \/ pc[u] = "st_wait"

\* C8: close monotonicity.  closed never goes back to false, it is set only
\* by a step of a shutdown call, and an enqueue that takes the lock when
\* closed is set returns Closed.
C8_CloseMonotone ==
    [][/\ closed => closed'
       /\ closed' # closed => ev'[1] \in Shutdowns
       /\ (closed /\ ncalls' # ncalls /\ ev'[1] = "enqueue")
              => ev' = <<"enqueue", "Closed">>]_vars

\* an enqueue is refused while the closing shutdown has not emptied the queue
C8_Witness ==
    /\ ev = <<"enqueue", "Closed">>
    /\ ~FairIsEmpty(pq)

\* C9: drain law.  Once a shutdown_immediate has returned, the queue holds no
\* item, and every call that takes the lock from then on finds it so:
\* try_dequeue returns None, dequeue returns Closed, enqueue returns Closed.
C9_DrainLaw ==
    [][/\ immDone' => QueueHoldsNothing(pq') /\ FairIsEmpty(pq')
       /\ immDone =>
            /\ ev'[1] = "try_dequeue" => ev' = <<"try_dequeue", "None">>
            /\ (ev'[1] = "dequeue" /\ ev'[2] # "Ok") => ev' = <<"dequeue", "Closed">>
            /\ (ev'[1] = "enqueue" /\ ev'[2] # "Ok") => ev' = <<"enqueue", "Closed">>]_vars

\* after a shutdown_immediate that discarded an item, try_dequeue finds nothing
C9_Witness ==
    /\ immDone
    /\ ev = <<"try_dequeue", "None">>
    /\ Accepted \ out # {}

\* a shutdown call of t starts, ends
ShutdownStarts(t) == entry[t] = "-" /\ entry'[t] # "-"
ShutdownReturns(t) == entry[t] # "-" /\ entry'[t] = "-"

\* C10 (as claimed): once the queue is closed, another call of any shutdown
\* variant changes nothing in the queue and returns ok.
C10_SecondShutdownNoOp ==
    [][\A t \in Threads :
         /\ (closed /\ ShutdownStarts(t)) => (pq' = pq /\ closed' = closed)
         /\ (ShutdownReturns(t) /\ entry[t] \in {"closed-empty", "closed-nonempty"})
                => ev'[2] = "Ok"]_vars

\* C10 (amended): once the queue is closed and empty, another call of any
\* shutdown variant changes nothing in the queue, does not wait and returns ok.
C10_SecondShutdownOnEmptyNoOp ==
    [][/\ (closed /\ FairIsEmpty(pq) /\ ncalls' # ncalls /\ ev'[1] \in Shutdowns)
            => /\ pq' = pq /\ closed' = closed
               /\ ev'[2] \in {"empty", "drained"}
               /\ \E t \in Threads : entry'[t] = "closed-empty" /\ entry[t] = "-"
       /\ \A t \in Threads :
            (ShutdownReturns(t) /\ entry[t] = "closed-empty") => ev'[2] = "Ok"]_vars

\* after a shutdown_immediate has returned, a shutdown_timeout is on its way out
C10_Witness ==
    /\ immDone
    /\ \E t \in Threads : entry[t] = "closed-empty" /\ pc[t] = "st_notify"

\* a step of shutdown_timeout that examines the queue under the lock
TimeoutExamines ==
    /\ ev'[1] = "shutdown_timeout"
    /\ ev'[2] \in {"empty", "wait", "Timeout"}

\* C11: timeout race.  shutdown_timeout returns Timeout only from a wait whose
\* deadline has passed and with the queue non-empty at the re-check under the
\* lock; whenever it examines a queue that is empty, at the call or after any
\* wake-up, deadline passed or not, it goes on to broadcast and return ok.
C11_TimeoutRace ==
    [][/\ ev' = <<"shutdown_timeout", "Timeout">> =>
            /\ ~FairIsEmpty(pq)
            /\ \E t \in Threads : pc[t] = "st_wait" /\ elapsed[t] /\ pc'[t] = "idle"
       /\ (TimeoutExamines /\ FairIsEmpty(pq)) =>
            /\ ev'[2] = "empty"
            /\ \E t \in Threads : pc[t] # "st_notify" /\ pc'[t] = "st_notify"
       /\ \A t \in Threads :
            (pc[t] = "st_notify" /\ pc'[t] # "st_notify")
                => ev' = <<"shutdown_timeout", "Ok">>]_vars

\* the deadline has passed and the re-check found the queue empty: ok is next
C11_Witness ==
    \E t \in Threads : pc[t] = "st_notify" /\ elapsed[t] /\ entry[t] = "open"

\* C12: Timeout is a frame.  The step in which shutdown_timeout returns
\* Timeout changes nothing in the queue (levels, rosters, per-entity
\* sequences) and leaves it closed; on the closed queue an enqueue is refused
\* with Closed and changes nothing, and try_dequeue hands out what the fair
\* queue's priority / round-robin order puts next, until nothing is left.
C12_TimeoutLeavesQueue ==
    [][/\ ev' = <<"shutdown_timeout", "Timeout">> =>
            (pq' = pq /\ closed /\ closed' /\ waiters' = waiters)
       /\ (closed /\ ev'[1] = "enqueue" /\ ev'[2] # "Ok") =>
            (ev' = <<"enqueue", "Closed">> /\ pq' = pq)
       /\ (closed /\ ev'[1] = "try_dequeue") =>
            LET r == FairTryDequeue(pq)
            IN /\ pq' = r.q
               /\ ev' = IF FairIsEmpty(pq) THEN <<"try_dequeue", "None">>
                        ELSE <<"try_dequeue", "Some", r.item>>]_vars

\* shutdown_timeout has just returned Timeout; the queue still holds an item
C12_Witness ==
    /\ ev = <<"shutdown_timeout", "Timeout">>
    /\ closed
    /\ ~QueueHoldsNothing(pq)

\* a step in which dequeue holds the lock and evaluates its predicate
DequeueProceeds == ev'[1] = "dequeue" /\ ev'[2] # "Ok"

\* C13: blocking dequeue follows the closed / empty state machine.  Whenever
\* dequeue evaluates its predicate (at the call or after a wake-up): a
\* non-empty queue, open or closed, gives it an item; a closed and empty one
\* gives Closed; an open and empty one puts it (back) to sleep, no return.
C13_DequeueStateMachine ==
    [][DequeueProceeds =>
         /\ ~FairIsEmpty(pq) =>
              (/\ ev'[2] = "Some"
               /\ ev'[3] = FairTryDequeue(pq).item
               /\ pq' = FairTryDequeue(pq).q)
         /\ (FairIsEmpty(pq) /\ closed) => (ev' = <<"dequeue", "Closed">> /\ pq' = pq)
         /\ (FairIsEmpty(pq) /\ ~closed) =>
              /\ ev' = <<"dequeue", "wait">>
              /\ \E t \in Threads : pc'[t] = "deq_wait" /\ t \in waiters' \ waiters
         /\ ev' = <<"dequeue", "Closed">> => (closed /\ FairIsEmpty(pq))]_vars

\* a blocking dequeue takes an item from a closed queue
C13_Witness ==
    /\ Len(ev) = 3 /\ ev[1] = "dequeue" /\ ev[2] = "Some"
    /\ closed

\* C14: try_dequeue never fails with Closed.  On a non-empty queue, closed or
\* open, it returns the next item; on an empty one it returns None and
\* changes nothing; it never sleeps: the call is over in the step.
C14_TryDequeueNeverClosed ==
    [][ev'[1] = "try_dequeue" =>
         /\ ev'[2] \in {"Some", "None"}
         /\ ~FairIsEmpty(pq) =>
              (/\ ev' = <<"try_dequeue", "Some", FairTryDequeue(pq).item>>
               /\ pq' = FairTryDequeue(pq).q)
         /\ FairIsEmpty(pq) =>
              (/\ ev' = <<"try_dequeue", "None">>
               /\ UNCHANGED <<pq, closed, waiters, elapsed, enqCount, out>>)
         /\ pc' = pc]_vars

\* try_dequeue takes an item from a closed queue
C14_Witness ==
    /\ Len(ev) = 3 /\ ev[1] = "try_dequeue" /\ ev[2] = "Some"
    /\ closed

\* how far past the last level the priorities of C15 and C16 go
PrioOver == 2

\* C15: BadPriority without mutation.  Whenever an enqueue through the open
\* synchronized queue is refused with BadPriority, the step changes neither
\* the queue nor closed, wakes nobody and leaves no notify to come; and of the
\* queue it found, cut to its first n levels, n from 0 (no level at all) to
\* NPrio, the fair queue's enqueue answers BadPriority(prio) for every
\* prio >= n and returns the levels as they were.  So an enqueue that is
\* accepted was given a priority below NPrio.
C15_BadPriorityNoMutation ==
    /\ [][(ev'[1] = "enqueue" /\ ev'[2] = "BadPriority") =>
         /\ ev'[3] >= NPrio
         /\ ~closed
         /\ UNCHANGED <<pq, closed, waiters, pc, enqCount>>
         /\ \A n \in 0..NPrio, prio \in 0..(NPrio + PrioOver), e \in Entities :
              prio >= n =>
                  LET q == SubSeq(pq, 1, n)
                      r == FairEnqueue(q, prio, e, NextItem(prio, e))
                  IN ~r.ok /\ r.err = <<"BadPriority", prio>> /\ r.q = q
         /\ \A prio \in NPrio..(NPrio + PrioOver), e \in Entities :
              EnqueueLocked(pq, FALSE, prio, e, NextItem(prio, e))
                  = [q |-> pq, res |-> <<"BadPriority", prio>>]]_vars
    /\ [][ev' = <<"enqueue", "queued">> =>
            \E prio \in Prios, e \in Entities :
                enqCount' = [enqCount EXCEPT ![prio][e] = @ + 1]]_vars

\* an enqueue has just been refused with BadPriority while a thread sleeps
\* on the condition variable
C15_Witness ==
    /\ ev = <<"enqueue", "BadPriority", NPrio>>
    /\ waiters # {}

\* C16: Closed before BadPriority.  An enqueue that takes the lock of a
\* closed queue is refused with Closed, whatever its priority, valid or out
\* of range; the step changes nothing in the queue, wakes nobody and leaves
\* no notify to come.
C16_ClosedBeforeBadPriority ==
    [][/\ (closed /\ ev'[1] = "enqueue" /\ ev'[2] # "Ok") =>
            ev' = <<"enqueue", "Closed">>
       /\ ev' = <<"enqueue", "Closed">> =>
            /\ closed
            /\ UNCHANGED <<pq, closed, waiters, pc, enqCount>>
            /\ \A prio \in 0..(NPrio + PrioOver), e \in Entities :
                 EnqueueLocked(pq, TRUE, prio, e, NextItem(prio, e))
                     = [q |-> pq, res |-> <<"Closed">>]]_vars

\* an enqueue has just been refused with Closed while the queue holds an item
\* and a thread sleeps on the condition variable
C16_Witness ==
    /\ ev = <<"enqueue", "Closed">>
    /\ ~QueueHoldsNothing(pq)
    /\ waiters # {}

\* C18: try_dequeue broadcasts when it empties the queue.  A try_dequeue that
\* takes the last item wakes every sleeper, or at least goes on to a notify
\* of its own (the caller is then not back in "idle" yet).
C18_TryDequeueBroadcasts ==
    [][(ev'[1] = "try_dequeue" /\ ev'[2] = "Some" /\ FairIsEmpty(pq')) =>
         \/ waiters' = {}
         \/ pc' # pc]_vars

ShutdownNotifyPcs == {"si_notify", "sg_notify", "st_notify"}

\* C24 (as claimed): every return from shutdown_immediate, shutdown_graceful
\* or shutdown_timeout, the Timeout return included, comes with a notify_all
\* of that call, issued after the call set closed: the return leaves nobody
\* asleep on the condition variable.
C24_AllReturnsBroadcast ==
    [][\A t \in Threads : ShutdownReturns(t) => (closed /\ waiters' = {})]_vars

\* C24 (amended): every ok return from shutdown_immediate, shutdown_graceful
\* or shutdown_timeout comes with a notify_all of that call, issued after the
\* call set closed and released the lock; a shutdown returns either ok or,
\* from shutdown_timeout, Timeout, and the Timeout return wakes nobody.
C24_OkReturnsBroadcast ==
    [][\A t \in Threads :
         ShutdownReturns(t) =>
             /\ closed /\ closed'
             /\ \/ /\ ev'[1] \in Shutdowns /\ ev'[2] = "Ok"
                   /\ pc[t] \in ShutdownNotifyPcs
                   /\ waiters' = {}
                \/ /\ ev' = <<"shutdown_timeout", "Timeout">>
                   /\ pc[t] = "st_wait"
                   /\ waiters' = waiters]_vars

\* shutdown_timeout has returned ok and its notify_all has woken a dequeue
\* that slept on the open empty queue
C24_Witness ==
    /\ ev = <<"shutdown_timeout", "Ok">>
    /\ \E t \in Threads : pc[t] = "deq_wait" /\ t \notin waiters

WaitPcs == {"deq_wait", "sg_wait", "st_wait"}

\* the wait predicate of the call thread t sleeps in holds
MustWait(t) ==
    \/ pc[t] = "deq_wait" /\ FairIsEmpty(pq) /\ ~closed
    \/ pc[t] = "sg_wait" /\ ~FairIsEmpty(pq)
    \/ pc[t] = "st_wait" /\ ~FairIsEmpty(pq) /\ ~elapsed[t]

\* C25: spurious wake-ups are not observable.  A wake-up that no notify
\* caused changes nothing but the sleeper set.  A thread in a wait of
\* dequeue, shutdown_graceful or shutdown_timeout whose predicate holds
\* (dequeue: empty and open; shutdowns: non-empty, deadline not passed) does
\* not leave the wait, whatever step is taken; and when it runs after a
\* wake-up, the step changes neither the queue nor closed, hands out nothing
\* and returns nothing: the thread is asleep again.
C25_SpuriousWakeInvisible ==
    [][/\ ev' = <<"cv", "spurious">> =>
            UNCHANGED <<pq, closed, pc, elapsed, out, enqCount>>
       /\ \A t \in Threads :
            (pc[t] \in WaitPcs /\ MustWait(t)) =>
                /\ pc'[t] = pc[t]
                /\ (t \notin waiters /\ t \in waiters') =>
                       /\ UNCHANGED <<pq, closed, pc, elapsed, out, enqCount>>
                       /\ waiters' = waiters \cup {t}
                       /\ ev'[2] = "wait"
       /\ \A t \in Threads :
            (pc[t] \in WaitPcs /\ t \notin waiters /\ t \in waiters') => MustWait(t)]_vars

\* a shutdown_timeout was woken by nothing, before its deadline, with the
\* queue still non-empty
C25_Witness ==
    /\ ev = <<"cv", "spurious">>
    /\ \E t \in Threads :
         pc[t] = "st_wait" /\ t \notin waiters /\ ~elapsed[t] /\ ~FairIsEmpty(pq)

\* where shutdown_graceful and shutdown_timeout stand on their way to Ok(())
OkPcs == {"sg_notify", "st_notify"}

ClosedAndEmpty(q, cl) == cl /\ FairIsEmpty(q) /\ QueueHoldsNothing(q)

\* C26: an ok from shutdown_graceful or shutdown_timeout means closed and
\* empty for good.  The call goes on to return ok only from a look at the
\* queue, under the lock, that found it empty, closed being set; from that
\* look to the return the queue is closed and empty; and a queue that is
\* closed and empty stays so in every step, whatever call takes it (enqueue
\* is refused, try_dequeue and dequeue find nothing, a shutdown changes
\* nothing).
C26_OkMeansClosedEmpty ==
    [][/\ \A t \in Threads :
            /\ pc'[t] \in OkPcs => ClosedAndEmpty(pq', closed')
            /\ (pc[t] \notin OkPcs /\ pc'[t] \in OkPcs) =>
                   (FairIsEmpty(pq) /\ pq' = pq /\ ev'[2] = "empty")
       /\ (ev'[1] \in {"shutdown_graceful", "shutdown_timeout"} /\ ev'[2] = "Ok") =>
            /\ \E t \in Threads : pc[t] \in OkPcs /\ pc'[t] = "idle"
            /\ ClosedAndEmpty(pq, closed)
            /\ ClosedAndEmpty(pq', closed')
       /\ ClosedAndEmpty(pq, closed) => (ClosedAndEmpty(pq', closed') /\ pq' = pq)]_vars

\* between the look that found the queue empty and the return of
\* shutdown_graceful, a concurrent enqueue has been refused
C26_Witness ==
    /\ ev = <<"enqueue", "Closed">>
    /\ \E t \in Threads : pc[t] = "sg_notify" /\ entry[t] = "open"
    /\ out # {}

\* the items a level, a queue holds
LevelItems(level) ==
    UNION {{level.by_entities[e][k] : k \in 1..Len(level.by_entities[e])} :
               e \in DOMAIN level.by_entities}

Queued(q) == UNION {LevelItems(q[i]) : i \in 1..Len(q)}

\* C27: item conservation.  Every accepted item is either queued, once, or
\* was handed out, once, by a dequeue or try_dequeue, or was discarded; a
\* step that hands out an item takes it from the queue and it was not handed
\* out before; an item leaves the queue without being handed out only in the
\* drain of shutdown_immediate; a step of shutdown_graceful or
\* shutdown_timeout leaves the queue as it is.
C27_ItemConservation ==
    [][/\ out \subseteq out'
       /\ (ev'[1] \in {"shutdown_graceful", "shutdown_timeout"}) =>
              (pq' = pq /\ out' = out)
       /\ pq' = pq => out' = out
       /\ pq' # pq =>
            LET Q == Queued(pq)
                R == Queued(pq')
            IN /\ R \cap out' = {}
               /\ (R \cup out') \subseteq Accepted'
               /\ QueueSize(pq') = Cardinality(R)
               /\ \/ /\ ev' = <<"enqueue", "queued">>
                     /\ out' = out
                     /\ \E x \in Accepted' \ Accepted : x \notin Q /\ R = Q \cup {x}
                  \/ /\ HandsOut
                     /\ ev'[1] \in {"dequeue", "try_dequeue"}
                     /\ ev'[3] \in Q /\ ev'[3] \notin out
                     /\ R = Q \ {ev'[3]}
                     /\ out' = out \cup {ev'[3]}
                  \/ /\ ev' = <<"shutdown_immediate", "drained">>
                     /\ R = {} /\ out' = out]_vars

\* of two accepted items one was handed out and the other has just been
\* discarded by a shutdown_immediate
C27_Witness ==
    /\ ev = <<"shutdown_immediate", "drained">>
    /\ Cardinality(Accepted) = 2
    /\ Cardinality(out) = 1
    /\ Queued(pq) = {}

\* --------------------------------------------- claims on SpecGraceful
\* C7: graceful shutdown completes when consumers drain.  Once the main
\* thread is in shutdown_graceful, called on a non-empty queue, the call
\* eventually returns, the consumers calling dequeue until Closed.
C7_GracefulReturns ==
    (app.bpc[GMain] = "in-call") ~> (app.bpc[GMain] = "done")

\* ------------------------------------------------ claims on SpecBench
AllConsumersDone == \A c \in BConsumers : app.bpc[c] = "done"

AllDataSeenOnce == \A k \in 1..NItems : app.seen[k] = 1

\* C5: no lost wakeups.  With NProducers producers enqueueing NItems Data
\* items and NConsumers consumers looping on dequeue, the Stops being sent
\* once the Data is through, every consumer eventually returns for good, no
\* Data item is ever returned twice, and by then each has been returned once.
C5_NoLostWakeups ==
    /\ <>[](AllConsumersDone /\ AllDataSeenOnce)
    /\ [](\A k \in 1..NItems : app.seen[k] <= 1)

\* the run is over: consumers and main are done, the Data all seen
C5_Witness ==
    /\ AllConsumersDone
    /\ AllDataSeenOnce
    /\ app.bpc[BMain] = "done"
    /\ app.stops = NConsumers

\* ------------------------------------------------- claims on SpecLive
Asleep == {"deq_wait", "sg_wait", "st_wait"}

\* C17: shutdown_immediate leaves no thread blocked.  Once a
\* shutdown_immediate has returned, nobody is asleep on the condition
\* variable; every thread found in a wait of dequeue, shutdown_graceful or
\* shutdown_timeout gets out of its call; and from then on a dequeue that
\* proceeds returns Closed and no shutdown returns Timeout (a waiting
\* shutdown's only other way out is ok).
C17_ImmediateLeavesNoneBlocked ==
    /\ \A t \in Threads : (immDone /\ pc[t] \in Asleep) ~> (pc[t] = "idle")
    /\ [](immDone => waiters = {})
    /\ [][immDone =>
            /\ ev' # <<"shutdown_timeout", "Timeout">>
            /\ DequeueProceeds => ev' = <<"dequeue", "Closed">>
            /\ \A t \in Threads :
                 (pc[t] \in {"sg_wait", "st_wait"} /\ pc'[t] # pc[t])
                     => pc'[t] \in {"sg_notify", "st_notify"}]_vars

\* a shutdown_immediate has returned; a shutdown_graceful that slept on a
\* non-empty queue has been woken and has not run yet
C17_Witness ==
    /\ immDone
    /\ \E t \in Threads : pc[t] = "sg_wait" /\ entry[t] = "open"

\* C19: shutdown_timeout is bounded.  A thread inside shutdown_timeout,
\* asleep or not, consumer or no consumer, gets out of the call.
C19_TimeoutReturns ==
    \A t \in Threads : (pc[t] \in {"st_wait", "st_notify"}) ~> (pc[t] = "idle")

\* shutdown_timeout has returned Timeout: nobody emptied the queue
C19_Witness ==
    /\ ev = <<"shutdown_timeout", "Timeout">>
    /\ out = {}
    /\ ~FairIsEmpty(pq)

\* the calls that never sleep, and where such a call stands after its locked
\* section when it has a notify left to do
NonBlockingOps == {"enqueue", "try_dequeue", "shutdown_immediate"}
NonBlockingPcs == {"enq_notify", "si_notify"}

\* C21: enqueue, try_dequeue and shutdown_immediate do not block.  No step of
\* these calls puts a thread to sleep on the condition variable; a step
\* leaves the caller out of the call or before its one notify, never in a
\* wait, and from there the call returns; the loop of shutdown_immediate makes
\* one try_dequeue per queued item and one more, and leaves nothing queued.
C21_NonBlocking ==
    /\ \A t \in Threads : (pc[t] \in NonBlockingPcs) ~> (pc[t] = "idle")
    /\ [](\A t \in Threads : pc[t] \in NonBlockingPcs => t \notin waiters)
    /\ [][ev'[1] \in NonBlockingOps =>
            /\ waiters' \subseteq waiters
            /\ \A t \in Threads :
                 pc'[t] # pc[t] =>
                     \/ pc[t] = "idle" /\ pc'[t] \in NonBlockingPcs
                     \/ pc[t] \in NonBlockingPcs /\ pc'[t] = "idle"
            /\ ev' = <<"shutdown_immediate", "drained">> =>
                 /\ DrainCalls(pq) = QueueSize(pq) + 1
                 /\ QueueHoldsNothing(pq') /\ FairIsEmpty(pq')]_vars

\* shutdown_immediate has discarded two items and has its notify left to do
C21_Witness ==
    /\ ev = <<"shutdown_immediate", "drained">>
    /\ \E t \in Threads : pc[t] = "si_notify"
    /\ Cardinality(Accepted \ out) = 2

=============================================================================
